---- MODULE Spec2Model ----
(***************************************************************************)
(* A model of environmentlogger/environmental_logger_json2netcdf.py: the   *)
(* conversion of environmental-logger JSON records to netCDF.              *)
(*                                                                         *)
(* Numbers.  JSON numbers are modelled as integers.  A scale factor of the *)
(* unit table is the rational [num, den]; a scaled value is the rational   *)
(* [num |-> v * num, den |-> den].  Wavelengths are drawn from the even    *)
(* integers, so that the midpoint (a + b) / 2 of two of them is exact.     *)
(* Strings that the program only compares (unit labels, field names) are   *)
(* TLA+ strings; strings that it takes apart (file names, timestamps) are  *)
(* sequences of one-character strings.                                     *)
(***************************************************************************)
EXTENDS Integers, Sequences, FiniteSets, TLC

\* ------------------------------------------------------------------ bounds
MaxReadings == 2
MaxChannels == 4
MaxFiles == 2
MaxStem == 2
LastYear == 1972

\* ----------------------------------------------------------------- helpers
Range(s) == {s[i] : i \in 1..Len(s)}

RECURSIVE SumSeq(_)
SumSeq(s) == IF s = <<>> THEN 0 ELSE Head(s) + SumSeq(Tail(s))

\* Sequences over S of length lo..hi.
SeqsOf(S, lo, hi) == UNION {[1..n -> S] : n \in lo..hi}

\* Exceptions: a Python exception is its type and its arguments.
NoExc == [type |-> "none", args |-> <<>>]
Exc(type, args) == [type |-> type, args |-> args]
Return(v) == [ok |-> TRUE, val |-> v, exc |-> NoExc]
Raise(e) == [ok |-> FALSE, val |-> <<>>, exc |-> e]

\* ------------------------------------------------------------- unit table
Rat(n, d) == [num |-> n, den |-> d]
UnitDict(orig, si, power) == [kind |-> "dict", original |-> orig, SI |-> si, power |-> power]
PyStr(s) == [kind |-> "str", str |-> s]

UNIT_DICTIONARY ==
    [label \in {"m", "hPa", "DegCelsius", "s", "m/s", "mm/h", "relHumPerCent",
                "?mol/(m^2*s)", "umol/(m^2*s)", "kilo Lux", "degrees", "?s", "us",
                "ppm", ""} |->
        CASE label = "m" -> UnitDict("meter", "meter", Rat(1, 1))
          [] label = "hPa" -> UnitDict("hectopascal", "pascal", Rat(100, 1))
          [] label = "DegCelsius" -> UnitDict("celsius", "celsius", Rat(1, 1))
          [] label = "s" -> UnitDict("second", "second", Rat(1, 1))
          [] label = "m/s" -> UnitDict("meter second-1", "meter second-1", Rat(1, 1))
          [] label = "mm/h" -> UnitDict("millimeter hour-1", "meter second-1", Rat(278, 1000000000))
          [] label = "relHumPerCent" -> UnitDict("percent", "percent", Rat(1, 1))
          [] label = "?mol/(m^2*s)" -> UnitDict("micromole meter-2 second-1", "mole second-1", Rat(1, 1000000))
          [] label = "umol/(m^2*s)" -> UnitDict("micromole meter-2 second-1", "mole second-1", Rat(1, 1000000))
          [] label = "kilo Lux" -> UnitDict("kiloLux", "lux", Rat(1000, 1))
          [] label = "degrees" -> UnitDict("degree", "degree", Rat(1, 1))
          [] label = "?s" -> UnitDict("microsecond", "second", Rat(1, 1000000))
          [] label = "us" -> UnitDict("microsecond", "second", Rat(1, 1000000))
          [] label = "ppm" -> UnitDict("part per million", "mol mol-1", Rat(1, 1000000))
          [] label = "" -> PyStr("")]

\* A lookup that takes an absent key for a unit-less label of factor 1.
DictLookupDefaultingToUnitless(d, key) ==
    IF key \in DOMAIN d THEN Return(d[key]) ELSE Return(UnitDict(key, key, Rat(1, 1)))

\* d[key] on a dictionary: KeyError(key) when the key is absent.
DictLookup(d, key) ==
    IF key \in DOMAIN d THEN Return(d[key]) ELSE Raise(Exc("KeyError", <<key>>))

\* obj["power"], obj["SI"]: a str subscripted by a str is a TypeError.
Subscript(obj, key) ==
    IF obj.kind = "dict"
    THEN Return(obj[key])
    ELSE Raise(Exc("TypeError", <<"string indices must be integers">>))

\* float(x) * power, x a JSON number.
Scaled(x, power) == Rat(x * power.num, power.den)

\* --------------------------------------------------------- field extractor
\* The extraction, were it to scale the raw value of each reading.
getListOfWeatherStationValueScalingRaw(arrayOfJSON, dataName) ==
    LET looked == DictLookup(UNIT_DICTIONARY, arrayOfJSON[1].weather_station[dataName].unit)
    IN  IF ~looked.ok THEN looked
        ELSE LET converting_to == looked.val
                 power == Subscript(converting_to, "power")
             IN  IF ~power.ok THEN power
                 ELSE Return([value |-> [i \in 1..Len(arrayOfJSON) |->
                                  Scaled(arrayOfJSON[i].weather_station[dataName].rawValue, power.val)],
                              unit |-> [i \in 1..Len(arrayOfJSON) |-> converting_to.SI],
                              rawValue |-> [i \in 1..Len(arrayOfJSON) |->
                                  arrayOfJSON[i].weather_station[dataName].rawValue]])

\* The extraction, were it to convert an unknown label with the factor 1.
getListOfWeatherStationValueAssumingUnitless(arrayOfJSON, dataName) ==
    LET looked == DictLookupDefaultingToUnitless(UNIT_DICTIONARY,
                      arrayOfJSON[1].weather_station[dataName].unit)
        converting_to == looked.val
        power == Subscript(converting_to, "power")
    IN  IF ~power.ok THEN power
        ELSE Return([value |-> [i \in 1..Len(arrayOfJSON) |->
                         Scaled(arrayOfJSON[i].weather_station[dataName].value, power.val)],
                     unit |-> [i \in 1..Len(arrayOfJSON) |-> converting_to.SI],
                     rawValue |-> [i \in 1..Len(arrayOfJSON) |->
                         arrayOfJSON[i].weather_station[dataName].rawValue]])

\* The three lists (values, units, raw values) of one weather-station field
\* over the readings; the unit is looked up on the first reading alone.
getListOfWeatherStationValue(arrayOfJSON, dataName) ==
    LET looked == DictLookup(UNIT_DICTIONARY, arrayOfJSON[1].weather_station[dataName].unit)
    IN  IF ~looked.ok THEN looked
        ELSE LET converting_to == looked.val
                 power == Subscript(converting_to, "power")
             IN  IF ~power.ok THEN power
                 ELSE Return([value |-> [i \in 1..Len(arrayOfJSON) |->
                                  Scaled(arrayOfJSON[i].weather_station[dataName].value, power.val)],
                              unit |-> [i \in 1..Len(arrayOfJSON) |-> converting_to.SI],
                              rawValue |-> [i \in 1..Len(arrayOfJSON) |->
                                  arrayOfJSON[i].weather_station[dataName].rawValue]])

\* The same three lists of a "sensor ..." scalar, a top-level key of a reading.
sensorVariables(JSONArray, sensors) ==
    LET looked == DictLookup(UNIT_DICTIONARY, JSONArray[1][sensors].unit)
    IN  IF ~looked.ok THEN looked
        ELSE LET converting_to == looked.val
                 power == Subscript(converting_to, "power")
             IN  IF ~power.ok THEN power
                 ELSE Return([value |-> [i \in 1..Len(JSONArray) |->
                                  Scaled(JSONArray[i][sensors].value, power.val)],
                              unit |-> [i \in 1..Len(JSONArray) |-> converting_to.SI],
                              rawValue |-> [i \in 1..Len(JSONArray) |-> JSONArray[i][sensors].rawValue]])

\* --------------------------------------------------- spectrometer extractor
handleSpectrometer(JSONArray) ==
    [wvl_lgr |-> JSONArray[1].spectrometer.wavelength,
     spectrum |-> [i \in 1..Len(JSONArray) |-> JSONArray[i].spectrometer.spectrum],
     maxFixedIntensity |-> [i \in 1..Len(JSONArray) |-> JSONArray[i].spectrometer.maxFixedIntensity]]

\* ----------------------------------------------------------- time normalizer
Digits == <<"0", "1", "2", "3", "4", "5", "6", "7", "8", "9">>
IsDigit(c) == c \in Range(Digits)
DigitValue(c) == (CHOOSE k \in 1..10 : Digits[k] = c) - 1

RECURSIVE ParseInt(_)
ParseInt(cs) ==
    IF cs = <<>> THEN 0
    ELSE 10 * ParseInt(SubSeq(cs, 1, Len(cs) - 1)) + DigitValue(cs[Len(cs)])

\* The proleptic Gregorian ordinal of datetime.date (1 is 0001-01-01).
IsLeap(y) == y % 4 = 0 /\ (y % 100 # 0 \/ y % 400 = 0)
DaysInMonth(y, m) ==
    IF m = 2 THEN (IF IsLeap(y) THEN 29 ELSE 28)
    ELSE IF m \in {4, 6, 9, 11} THEN 30 ELSE 31
DaysBeforeYear(y) == (y - 1) * 365 + (y - 1) \div 4 - (y - 1) \div 100 + (y - 1) \div 400
RECURSIVE DaysBeforeMonth(_, _)
DaysBeforeMonth(y, m) == IF m = 1 THEN 0 ELSE DaysBeforeMonth(y, m - 1) + DaysInMonth(y, m - 1)
ToOrdinal(y, m, d) == DaysBeforeYear(y) + DaysBeforeMonth(y, m) + d

UNIX_BASETIME == [year |-> 1970, month |-> 1, day |-> 1]

\* datetime.strptime(timeString, "%Y.%m.%d-%H:%M:%S").timetuple(), on the
\* fixed-width form of the format; ValueError when the string does not match
\* the format or names no moment of the calendar.
Strptime(timeString) ==
    LET field(a, b) == SubSeq(timeString, a, b)
        shaped == /\ Len(timeString) = 19
                  /\ \A k \in {1, 2, 3, 4, 6, 7, 9, 10, 12, 13, 15, 16, 18, 19} : IsDigit(timeString[k])
                  /\ timeString[5] = "." /\ timeString[8] = "." /\ timeString[11] = "-"
                  /\ timeString[14] = ":" /\ timeString[17] = ":"
        tm == [tm_year |-> ParseInt(field(1, 4)), tm_mon |-> ParseInt(field(6, 7)),
               tm_mday |-> ParseInt(field(9, 10)), tm_hour |-> ParseInt(field(12, 13)),
               tm_min |-> ParseInt(field(15, 16)), tm_sec |-> ParseInt(field(18, 19))]
    IN  IF ~shaped THEN Raise(Exc("ValueError", <<"does not match format">>))
        ELSE IF \/ tm.tm_year < 1 \/ tm.tm_mon \notin 1..12
                \/ tm.tm_mday \notin 1..DaysInMonth(tm.tm_year, tm.tm_mon)
                \/ tm.tm_hour > 23 \/ tm.tm_min > 59 \/ tm.tm_sec > 59
        THEN Raise(Exc("ValueError", <<"out of range">>))
        ELSE Return(tm)

\* The translation, were it to leave the minutes out.
translateTimeDroppingMinutes(timeString) ==
    LET parsed == Strptime(timeString)
    IN  IF ~parsed.ok THEN parsed
        ELSE LET timeUnpack == parsed.val
                 timeSplit == ToOrdinal(timeUnpack.tm_year, timeUnpack.tm_mon, timeUnpack.tm_mday)
                              - ToOrdinal(UNIX_BASETIME.year, UNIX_BASETIME.month, UNIX_BASETIME.day)
             IN  Return(Rat(timeSplit * 86400 + timeUnpack.tm_hour * 3600 + timeUnpack.tm_sec,
                            3600 * 24))

\* The days (a rational over 86400) from the base time to the moment timeString names.
translateTime(timeString) ==
    LET parsed == Strptime(timeString)
    IN  IF ~parsed.ok THEN parsed
        ELSE LET timeUnpack == parsed.val
                 timeSplit == ToOrdinal(timeUnpack.tm_year, timeUnpack.tm_mon, timeUnpack.tm_mday)
                              - ToOrdinal(UNIX_BASETIME.year, UNIX_BASETIME.month, UNIX_BASETIME.day)
             IN  Return(Rat(timeSplit * 86400 + timeUnpack.tm_hour * 3600
                            + timeUnpack.tm_min * 60 + timeUnpack.tm_sec,
                            3600 * 24))

\* ------------------------------------------------------- wavelength deltas
\* list.insert(index, x): a negative index counts from the end, and an index
\* beyond either end is clipped to it.
ListInsert(list, index, x) ==
    LET n == Len(list)
        at == IF index < 0 THEN (IF n + index < 0 THEN 0 ELSE n + index)
              ELSE (IF index > n THEN n ELSE index)
    IN  SubSeq(list, 1, at) \o <<x>> \o SubSeq(list, at + 1, n)

\* numpy.average of a pair.
Average(a, b) == (a + b) \div 2

\* The bandwidth list, were the edge deltas the gap to the nearest midpoint and
\* not twice that gap.
computeDeltaWithSingleEdgeGaps(wvl_lgr) ==
    LET nw == Len(wvl_lgr)
        wvl_ntf == [i \in 1..(IF nw > 0 THEN nw - 1 ELSE 0) |-> Average(wvl_lgr[i], wvl_lgr[i + 1])]
        nn == Len(wvl_ntf)
        delta0 == [i \in 1..(IF nn > 0 THEN nn - 1 ELSE 0) |-> wvl_ntf[i + 1] - wvl_ntf[i]]
    IN  IF nn = 0 THEN Raise(Exc("IndexError", <<"list index out of range">>))
        ELSE LET delta1 == ListInsert(delta0, 0, wvl_ntf[1] - wvl_lgr[1])
                 delta2 == ListInsert(delta1, -1, wvl_lgr[nw] - wvl_ntf[nn])
             IN  Return(delta2)

\* The bandwidth list main builds from the wavelength grid; wvl_ntf[0] of an
\* empty midpoint list is an IndexError.
computeDelta(wvl_lgr) ==
    LET nw == Len(wvl_lgr)
        wvl_ntf == [i \in 1..(IF nw > 0 THEN nw - 1 ELSE 0) |-> Average(wvl_lgr[i], wvl_lgr[i + 1])]
        nn == Len(wvl_ntf)
        delta0 == [i \in 1..(IF nn > 0 THEN nn - 1 ELSE 0) |-> wvl_ntf[i + 1] - wvl_ntf[i]]
    IN  IF nn = 0 THEN Raise(Exc("IndexError", <<"list index out of range">>))
        ELSE LET delta1 == ListInsert(delta0, 0, 2 * (wvl_ntf[1] - wvl_lgr[1]))
                 delta2 == ListInsert(delta1, -1, 2 * (wvl_lgr[nw] - wvl_ntf[nn]))
             IN  Return(delta2)

\* --------------------------------------------------------- downwelling flux
\* environmental_logger_calculation: the calibration curve (flux per count of
\* each channel), the sensor area and the integration time the flux is
\* computed with.
FLX_SNS == <<2, 3, 5>>
AREA == 1
IntegrationTimeSeconds == 1

calculateDownwellingSpectralFlux(wvl, spec, dlt) ==
    IF Len(FLX_SNS) # Len(wvl)
    THEN Raise(Exc("CalibrationShapeError", <<Len(FLX_SNS), Len(wvl)>>))
    ELSE IF \E i \in 1..Len(spec) : Len(spec[i]) # Len(wvl)
    THEN Raise(Exc("ValueError", <<"operands could not be broadcast together">>))
    ELSE LET spectralFlux == [i \in 1..Len(spec) |-> [j \in 1..Len(wvl) |->
                                 (spec[i][j] * FLX_SNS[j]) \div (IntegrationTimeSeconds * AREA)]]
             scalarFlux == [i \in 1..Len(spec) |->
                               SumSeq([j \in 1..Len(wvl) |-> spectralFlux[i][j] * dlt[j]])]
         IN  Return([downwellingSpectralFlux |-> spectralFlux, downwellingFlux |-> scalarFlux])

\* ---------------------------------------------------------------- file names
DotJson == <<".", "j", "s", "o", "n">>
DotNc == <<".", "n", "c">>

EndsWith(s, suffix) ==
    Len(s) >= Len(suffix) /\ SubSeq(s, Len(s) - Len(suffix) + 1, Len(s)) = suffix

\* str.strip(chars): drops from both ends every character that is in chars.
RECURSIVE LStrip(_, _)
LStrip(s, chars) ==
    IF s # <<>> /\ Head(s) \in Range(chars) THEN LStrip(Tail(s), chars) ELSE s
RECURSIVE RStrip(_, _)
RStrip(s, chars) ==
    IF s # <<>> /\ s[Len(s)] \in Range(chars) THEN RStrip(SubSeq(s, 1, Len(s) - 1), chars) ELSE s
Strip(s, chars) == RStrip(LStrip(s, chars), chars)

\* "".join((members.strip('.json'), '.nc'))
OutputNameOf(members) == Strip(members, DotJson) \o DotNc

\* "Rename the value so they are legal in netCDF", on the keys main passes.
renameTheValue(name) ==
    CASE name = "sensor par" -> "Photosynthetically_Active_Radiation"
      [] name = "sensor co2" -> "atmospherical_CO2_concentration"
      [] OTHER -> name

\* data.startswith("sensor")
StartsWithSensor(data) == data \in {"sensor par", "sensor co2"}

\* ------------------------------------------------------------------- state
VARIABLES
    inputIsDir,       \* os.path.isdir(fileInputLocation)
    outputKind,       \* fileOutputLocation: "dir", "ncfile" (ends in .nc), "ncdir" (a directory ending in .nc)
    walk,             \* the files os.walk yields, in its order: [name, content]
    idx,              \* the position of the walk
    branch,           \* which branch of mainProgramTrigger runs: "none", "file", "walk"
    pc,               \* the statement the program is at
    exc,              \* the exception that ended the program, or NoExc
    members,          \* the input file being converted
    outputFileName,   \* the output path of the conversion in progress
    created,          \* output paths opened for writing by Dataset(.., 'w')
    converted,        \* [src, out]: conversions main returned from
    loggerReadings,   \* JSONArray["environment_sensor_readings"]
    todo,             \* the keys a for loop of main has still to visit
    nc,               \* the variables written to the netCDF file so far
    wvl_lgr, spectrum, delta, downwellingSpectralFlux, downwellingFlux

vars == <<inputIsDir, outputKind, walk, idx, branch, pc, exc, members, outputFileName,
          created, converted, loggerReadings, todo, nc, wvl_lgr, spectrum, delta,
          downwellingSpectralFlux, downwellingFlux>>

triggerVars == <<inputIsDir, outputKind, walk, idx, branch, members, outputFileName, created, converted>>
mainLocals == <<wvl_lgr, spectrum, delta, downwellingSpectralFlux, downwellingFlux>>

NcVar(val, units) == [val |-> val, units |-> units]
Put(f, key, v) == (key :> v) @@ f
Empty == [k \in {} |-> 0]

InDir(name) == [inDir |-> TRUE, name |-> name]
TheOutputLocation == [inDir |-> FALSE, name |-> <<>>]

\* An unhandled exception ends the program: nothing catches it in main or in
\* mainProgramTrigger.
Propagate(e) ==
    /\ pc' = "raised"
    /\ exc' = e

\* ------------------------------------------------------- mainProgramTrigger
\* Lines 392-405: the output directory is made, and a single input file is
\* read and handed to main.
Start ==
    /\ pc = "start"
    /\ IF ~inputIsDir \/ outputKind \in {"ncfile", "ncdir"}
       THEN IF inputIsDir
            THEN /\ Propagate(Exc("IOError", <<"Is a directory">>))
                 /\ UNCHANGED <<branch, members, outputFileName, loggerReadings>>
            ELSE /\ branch' = "file"
                 /\ members' = walk[1].name
                 /\ loggerReadings' = walk[1].content
                 /\ outputFileName' = IF outputKind = "ncfile" THEN TheOutputLocation
                                      ELSE InDir(OutputNameOf(walk[1].name))
                 /\ pc' = "open"
                 /\ exc' = exc
       ELSE /\ branch' = "walk"
            /\ pc' = "walk"
            /\ UNCHANGED <<exc, members, outputFileName, loggerReadings>>
    /\ UNCHANGED <<inputIsDir, outputKind, walk, idx, created, converted, todo, nc>>
    /\ UNCHANGED mainLocals

\* Lines 407-414: the next file of the walk; a '.json' file is read and handed
\* to main, any other is passed over.  Lines 416-417 after the last one.
Walk ==
    /\ pc = "walk"
    /\ IF idx > Len(walk)
       THEN /\ pc' = "finished"
            /\ UNCHANGED <<idx, members, outputFileName, loggerReadings>>
       ELSE IF EndsWith(walk[idx].name, DotJson)
       THEN /\ members' = walk[idx].name
            /\ outputFileName' = InDir(OutputNameOf(walk[idx].name))
            /\ loggerReadings' = walk[idx].content
            /\ pc' = "open"
            /\ idx' = idx
       ELSE /\ idx' = idx + 1
            /\ pc' = "walk"
            /\ UNCHANGED <<members, outputFileName, loggerReadings>>
    /\ UNCHANGED <<inputIsDir, outputKind, walk, branch, exc, created, converted, todo, nc>>
    /\ UNCHANGED mainLocals

\* --------------------------------------------------------------------- main
\* Lines 213-273: the output file is opened for writing and the sensor
\* variables are declared.
Open ==
    /\ pc = "open"
    /\ created' = created \cup {outputFileName}
    /\ nc' = Empty
    /\ wvl_lgr' = <<>> /\ spectrum' = <<>> /\ delta' = <<>>
    /\ downwellingSpectralFlux' = <<>> /\ downwellingFlux' = <<>>
    /\ todo' = DOMAIN loggerReadings[1].weather_station
    /\ pc' = "weather"
    /\ UNCHANGED <<inputIsDir, outputKind, walk, idx, branch, exc, members, outputFileName,
                   converted, loggerReadings>>

\* Lines 275-290: one pass of the loop over the weather-station fields of the
\* first reading (a dict: the order is any), then line 292 on.
Weather ==
    /\ pc = "weather"
    /\ IF todo = {}
       THEN /\ pc' = "spectrometer"
            /\ UNCHANGED <<exc, todo, nc>>
       ELSE \E data \in todo :
                LET got == getListOfWeatherStationValue(loggerReadings, data)
                IN  IF got.ok
                    THEN /\ nc' = Put(Put(nc, <<data>>, NcVar(got.val.value, got.val.unit[1])),
                                      <<"raw_", data>>, NcVar(got.val.rawValue, ""))
                         /\ todo' = todo \ {data}
                         /\ UNCHANGED <<pc, exc>>
                    ELSE /\ Propagate(got.exc)
                         /\ UNCHANGED <<todo, nc>>
    /\ UNCHANGED triggerVars
    /\ UNCHANGED loggerReadings
    /\ UNCHANGED mainLocals

\* Line 311, spectrumVariable[:,:] = spectrum: what the netCDF library does
\* with rows that do not fit the wvl_lgr dimension is the library's; it may
\* refuse them or take them.
RowsFit(grid, rows) == \A i \in 1..Len(rows) : Len(rows[i]) = Len(grid)

\* Lines 292-318: the spectrometer's lists are extracted and written.
Spectrometer ==
    /\ pc = "spectrometer"
    /\ LET got == handleSpectrometer(loggerReadings)
       IN  /\ wvl_lgr' = got.wvl_lgr
           /\ spectrum' = got.spectrum
           /\ \/ /\ nc' = Put(Put(Put(nc, <<"wvl_lgr">>, NcVar(got.wvl_lgr, "meter")),
                                  <<"spectrum">>, NcVar(got.spectrum, "meter")),
                              <<"maxFixedIntensity">>, NcVar(got.maxFixedIntensity, "placeholder"))
                 /\ pc' = "time"
                 /\ exc' = exc
              \/ /\ ~RowsFit(got.wvl_lgr, got.spectrum)
                 /\ nc' = Put(nc, <<"wvl_lgr">>, NcVar(got.wvl_lgr, "meter"))
                 /\ Propagate(Exc("ValueError", <<"netCDF4: shape mismatch">>))
    /\ UNCHANGED triggerVars
    /\ UNCHANGED <<loggerReadings, todo, delta, downwellingSpectralFlux, downwellingFlux>>

\* Lines 320-323: the time stamps; the first that does not parse raises.
Time ==
    /\ pc = "time"
    /\ LET times == [i \in 1..Len(loggerReadings) |-> translateTime(loggerReadings[i].timestamp)]
           bad == {i \in 1..Len(loggerReadings) : ~times[i].ok}
       IN  IF bad = {}
           THEN /\ nc' = Put(nc, <<"time">>,
                             NcVar([i \in 1..Len(loggerReadings) |-> times[i].val],
                                   "days since 1970-01-01 00:00:00"))
                /\ todo' = {data \in DOMAIN loggerReadings[1] : StartsWithSensor(data)}
                /\ pc' = "sensors"
                /\ exc' = exc
           ELSE /\ Propagate(times[CHOOSE i \in bad : \A k \in bad : i <= k].exc)
                /\ UNCHANGED <<todo, nc>>
    /\ UNCHANGED triggerVars
    /\ UNCHANGED loggerReadings
    /\ UNCHANGED mainLocals

\* Lines 325-341: one pass of the loop over the keys of the first reading that
\* start with "sensor" (the other keys are passed over), then line 343 on.
Sensors ==
    /\ pc = "sensors"
    /\ IF todo = {}
       THEN /\ pc' = "delta"
            /\ UNCHANGED <<exc, todo, nc>>
       ELSE \E data \in todo :
                LET got == sensorVariables(loggerReadings, data)
                IN  IF got.ok
                    THEN /\ nc' = Put(Put(nc, <<renameTheValue(data)>>,
                                          NcVar(got.val.value, got.val.unit[1])),
                                      <<"raw_", renameTheValue(data)>>, NcVar(got.val.rawValue, ""))
                         /\ todo' = todo \ {data}
                         /\ UNCHANGED <<pc, exc>>
                    ELSE /\ Propagate(got.exc)
                         /\ UNCHANGED <<todo, nc>>
    /\ UNCHANGED triggerVars
    /\ UNCHANGED loggerReadings
    /\ UNCHANGED mainLocals

\* Lines 343-346: the bandwidth of each channel.
Delta ==
    /\ pc = "delta"
    /\ LET got == computeDelta(wvl_lgr)
       IN  IF got.ok
           THEN /\ delta' = got.val
                /\ pc' = "flux"
                /\ exc' = exc
           ELSE /\ Propagate(got.exc)
                /\ delta' = delta
    /\ UNCHANGED triggerVars
    /\ UNCHANGED <<loggerReadings, todo, nc, wvl_lgr, spectrum, downwellingSpectralFlux, downwellingFlux>>

\* Line 350: the downwelling spectral flux and the downwelling flux.
Flux ==
    /\ pc = "flux"
    /\ LET got == calculateDownwellingSpectralFlux(wvl_lgr, spectrum, delta)
       IN  IF got.ok
           THEN /\ downwellingSpectralFlux' = got.val.downwellingSpectralFlux
                /\ downwellingFlux' = got.val.downwellingFlux
                /\ pc' = "write"
                /\ exc' = exc
           ELSE /\ Propagate(got.exc)
                /\ UNCHANGED <<downwellingSpectralFlux, downwellingFlux>>
    /\ UNCHANGED triggerVars
    /\ UNCHANGED <<loggerReadings, todo, nc, wvl_lgr, spectrum, delta>>

\* Lines 353-385: the derived variables are written and main returns to
\* mainProgramTrigger, at line 416 or at the next file of the walk.
Write ==
    /\ pc = "write"
    /\ nc' = Put(Put(Put(Put(nc, <<"wvl_dlt">>, NcVar(delta, "meter")),
                         <<"flx_spc_dwn">>, NcVar(downwellingSpectralFlux, "watt meter-2 meter-1")),
                     <<"flx_dwn">>, NcVar(downwellingFlux, "watt meter-2")),
                 <<"time_integration">>,
                 NcVar(Rat(loggerReadings[1].spectrometer.integration * 1000000, 1), "second"))
    /\ converted' = converted \cup {[src |-> members, out |-> outputFileName]}
    /\ IF branch = "file"
       THEN pc' = "finished" /\ idx' = idx
       ELSE pc' = "walk" /\ idx' = idx + 1
    /\ UNCHANGED <<inputIsDir, outputKind, walk, branch, exc, members, outputFileName, created,
                   loggerReadings, todo>>
    /\ UNCHANGED mainLocals

Next ==
    \/ Start
    \/ Walk
    \/ Open
    \/ Weather
    \/ Spectrometer
    \/ Time
    \/ Sensors
    \/ Delta
    \/ Flux
    \/ Write

\* ------------------------------------------------------------------ inputs
\* The record batches and directories the program is run on.
FirstYear == 1969
Values == {1, 2}
RawValues == {1, 3}
Counts == {1, 2}
Wavelengths == {2, 4, 6, 8}
StemChars == {"a", "s", "n"}
UnknownLabels == {"furlong"}
FirstLabels == DOMAIN UNIT_DICTIONARY \cup UnknownLabels
LaterLabels == {"m", "hPa"}
WeatherFields == {"temperature", "airPressure"}
SensorKeys == {"sensor par", "sensor co2"}
FieldKeys == WeatherFields \cup SensorKeys

Pad2(n) == <<Digits[((n \div 10) % 10) + 1], Digits[(n % 10) + 1]>>
Pad4(n) == Pad2(n \div 100) \o Pad2(n % 100)
Timestamp(y, m, d, h, mi, sec) ==
    Pad4(y) \o <<".">> \o Pad2(m) \o <<".">> \o Pad2(d) \o <<"-">>
    \o Pad2(h) \o <<":">> \o Pad2(mi) \o <<":">> \o Pad2(sec)

Cell(v, r, u) == [value |-> v, rawValue |-> r, unit |-> u]
NominalCell(key) ==
    CASE key = "temperature" -> Cell(2, 3, "DegCelsius")
      [] key = "airPressure" -> Cell(2, 1, "hPa")
      [] key = "sensor par" -> Cell(1, 3, "umol/(m^2*s)")
      [] key = "sensor co2" -> Cell(1, 1, "ppm")
NominalGrid == <<2, 4, 8>>
NominalRow(n) == [j \in 1..n |-> 1 + (j % 2)]
NominalTimestamp == Timestamp(1970, 1, 2, 0, 0, 0)

Spectro(grid, row) ==
    [wavelength |-> grid, spectrum |-> row, maxFixedIntensity |-> 16383, integration |-> 5]

\* A reading: its time stamp, its weather-station fields, its spectrometer
\* record and, as keys of their own, its sensor scalars.
Reading(ts, cells, sp) ==
    [key \in {"timestamp", "weather_station", "spectrometer"} \cup SensorKeys |->
        CASE key = "timestamp" -> ts
          [] key = "weather_station" -> [f \in WeatherFields |-> cells[f]]
          [] key = "spectrometer" -> sp
          [] OTHER -> cells[key]]

NominalCells == [key \in FieldKeys |-> NominalCell(key)]
NominalReading == Reading(NominalTimestamp, NominalCells, Spectro(NominalGrid, NominalRow(Len(NominalGrid))))
NominalBatch(n) == [i \in 1..n |-> NominalReading]

AJson == <<"a">> \o DotJson
File(name, content) == [name |-> name, content |-> content]

\* Every variable at the first statement of mainProgramTrigger.
InitWith(isDir, outKind, files) ==
    /\ inputIsDir = isDir
    /\ outputKind = outKind
    /\ walk = files
    /\ idx = 1
    /\ branch = "none"
    /\ pc = "start"
    /\ exc = NoExc
    /\ members = <<>>
    /\ outputFileName = TheOutputLocation
    /\ created = {}
    /\ converted = {}
    /\ loggerReadings = <<>>
    /\ todo = {}
    /\ nc = Empty
    /\ wvl_lgr = <<>> /\ spectrum = <<>> /\ delta = <<>>
    /\ downwellingSpectralFlux = <<>> /\ downwellingFlux = <<>>

\* One field of the batch takes every value, raw value and unit; the other
\* fields are the nominal ones.
CellsOf(labels) == [value : Values, rawValue : RawValues, unit : labels]
FieldBatches ==
    UNION {{[i \in 1..n |-> Reading(NominalTimestamp,
                                    [NominalCells EXCEPT ![key] = IF i = 1 THEN first ELSE later[i]],
                                    NominalReading.spectrometer)] :
               key \in FieldKeys, first \in CellsOf(FirstLabels),
               later \in [2..n -> CellsOf(LaterLabels)]} : n \in 1..MaxReadings}

InitFields ==
    \E batch \in FieldBatches : InitWith(TRUE, "dir", <<File(AJson, batch)>>)

SpecFields == InitFields /\ [][Next]_vars

\* The wavelength grid takes every sequence of wavelengths (the counts fit
\* it), or one reading's counts take every row of a grid that the calibration
\* curve fits.
StrictlyIncreasing(w) == \A k \in 1..(Len(w) - 1) : w[k] < w[k + 1]
CalibratedGrids == {w \in [1..Len(FLX_SNS) -> Wavelengths] : StrictlyIncreasing(w)}
GridBatches ==
    {[i \in 1..n |-> Reading(NominalTimestamp, NominalCells, Spectro(grid, NominalRow(Len(grid))))] :
        n \in 1..MaxReadings, grid \in SeqsOf(Wavelengths, 0, MaxChannels)}
RowBatches(lo, hi) ==
    UNION {{[i \in 1..n |-> Reading(NominalTimestamp, NominalCells,
                                    Spectro(grid, IF i = k THEN row ELSE NominalRow(Len(grid))))] :
               k \in 1..n, grid \in CalibratedGrids, row \in SeqsOf(Counts, lo, hi)} :
           n \in 1..MaxReadings}

InitGrid ==
    \E batch \in GridBatches \cup RowBatches(Len(FLX_SNS), Len(FLX_SNS)) :
        InitWith(TRUE, "dir", <<File(AJson, batch)>>)

SpecGrid == InitGrid /\ [][Next]_vars

\* One reading's counts take every row one shorter than the grid, as long as
\* it, or one longer.
InitShape ==
    \E batch \in RowBatches(Len(FLX_SNS) - 1, Len(FLX_SNS) + 1) :
        InitWith(TRUE, "dir", <<File(AJson, batch)>>)

SpecShape == InitShape /\ [][Next]_vars

\* The time stamp of a single reading takes every day of the years
\* FirstYear..LastYear (and the days 29 to 31 that a month may lack) at the
\* ends and the middle of the day, or the first and the last reading of a
\* batch take two of a few moments.
Hours == {0, 12, 23}
Minutes == {0, 59}
Seconds == {0, 7}
Moments ==
    {Timestamp(y, m, d, h, mi, sec) :
        y \in FirstYear..LastYear, m \in 1..12, d \in 1..31, h \in Hours, mi \in Minutes, sec \in Seconds}
PairMoments ==
    {Timestamp(ymd[1], ymd[2], ymd[3], hms[1], hms[2], hms[3]) :
        ymd \in {<<1970, 1, 1>>, <<1970, 1, 2>>, <<1970, 12, 31>>, <<1971, 1, 1>>,
                 <<1972, 2, 29>>, <<1972, 3, 1>>},
        hms \in {<<0, 0, 0>>, <<0, 0, 59>>, <<0, 59, 0>>, <<12, 0, 0>>, <<23, 59, 59>>}}
TimedReading(ts) == Reading(ts, NominalCells, NominalReading.spectrometer)
TimeBatches ==
    {<<TimedReading(ts)>> : ts \in Moments}
    \cup UNION {{[i \in 1..n |-> TimedReading(IF i = 1 THEN first ELSE IF i = n THEN last
                                              ELSE NominalTimestamp)] :
                    first \in PairMoments, last \in PairMoments} : n \in 2..MaxReadings}

InitTime ==
    \E batch \in TimeBatches : InitWith(TRUE, "dir", <<File(AJson, batch)>>)

SpecTime == InitTime /\ [][Next]_vars

\* A directory of up to MaxFiles files, each with or without the '.json'
\* extension and with a batch that converts or one that does not; or a single
\* file, or a directory of one, whose name takes every stem of up to MaxStem
\* characters, and every kind of output location.
UnknownUnitBatch ==
    <<Reading(NominalTimestamp, [NominalCells EXCEPT !["temperature"] = Cell(1, 1, "furlong")],
              NominalReading.spectrometer)>>
OneWavelengthBatch == <<Reading(NominalTimestamp, NominalCells, Spectro(<<2>>, <<1>>))>>
Contents == {NominalBatch(1), UnknownUnitBatch, OneWavelengthBatch}
Stems == SeqsOf(StemChars, 0, MaxStem)
Names == {stem \o DotJson : stem \in Stems} \cup {stem \in Stems : stem # <<>>}
NthName(k, json) == [j \in 1..k |-> "a"] \o (IF json THEN DotJson ELSE <<>>)
Directories ==
    UNION {{[k \in 1..n |-> File(NthName(k, json[k]), content[k])] :
               json \in [1..n -> BOOLEAN], content \in [1..n -> Contents]} : n \in 1..MaxFiles}

InitFiles ==
    \/ \E files \in Directories : InitWith(TRUE, "dir", files)
    \/ \E name \in Names, isDir \in BOOLEAN, outKind \in {"dir", "ncfile", "ncdir"} :
           InitWith(isDir, outKind, <<File(name, NominalBatch(1))>>)

SpecFiles == InitFiles /\ [][Next]_vars

\* One reading after the first has a wavelength grid of its own: every grid
\* one shorter than the first reading's, as long as it (the first reading's
\* grid among them), or one longer.  The counts fit the first reading's grid.
OwnGridBatches ==
    UNION {{[i \in 1..n |-> Reading(NominalTimestamp, NominalCells,
                                    Spectro(IF i = k THEN own ELSE grid, NominalRow(Len(grid))))] :
               k \in 2..n, grid \in CalibratedGrids,
               own \in SeqsOf(Wavelengths, Len(FLX_SNS) - 1, Len(FLX_SNS) + 1)} :
           n \in 2..MaxReadings}

InitOwnGrid ==
    \E batch \in OwnGridBatches : InitWith(TRUE, "dir", <<File(AJson, batch)>>)

SpecOwnGrid == InitOwnGrid /\ [][Next]_vars

\* The wavelength grid is uniform: it takes every first wavelength, every
\* spacing and every length from 3 to MaxChannels.
Spacings == {2, 4, 6}
UniformGrid(first, d, n) == [j \in 1..n |-> first + (j - 1) * d]
UniformGrids ==
    {UniformGrid(first, d, n) : first \in Wavelengths, d \in Spacings, n \in 3..MaxChannels}
UniformBatches ==
    {[i \in 1..n |-> Reading(NominalTimestamp, NominalCells, Spectro(grid, NominalRow(Len(grid))))] :
        n \in 1..MaxReadings, grid \in UniformGrids}

InitUniform ==
    \E batch \in UniformBatches : InitWith(TRUE, "dir", <<File(AJson, batch)>>)

SpecUniform == InitUniform /\ [][Next]_vars

\* The integration time of every reading, in microseconds, takes every one of
\* a few times.
IntegrationTimes == {1, 5, 2000}
IntegrationBatches ==
    UNION {{[i \in 1..n |-> Reading(NominalTimestamp, NominalCells,
                                    [NominalReading.spectrometer EXCEPT !.integration = t[i]])] :
               t \in [1..n -> IntegrationTimes]} : n \in 1..MaxReadings}

InitIntegration ==
    \E batch \in IntegrationBatches : InitWith(TRUE, "dir", <<File(AJson, batch)>>)

SpecIntegration == InitIntegration /\ [][Next]_vars

Init ==
    \/ InitFields \/ InitGrid \/ InitShape \/ InitTime \/ InitFiles \/ InitOwnGrid \/ InitUniform
    \/ InitIntegration

Spec == Init /\ [][Next]_vars

\* ------------------------------------------------------------ the claims
\* Equality of two rationals.
RatEq(a, b) == IF a.den = b.den THEN a.num = b.num ELSE a.num * b.den = b.num * a.den

Loaded == loggerReadings # <<>>
CellOf(i, key) ==
    IF key \in WeatherFields THEN loggerReadings[i].weather_station[key] ELSE loggerReadings[i][key]
FirstLabel(key) == CellOf(1, key).unit
\* The names main writes a field's values and raw values under.
NcName(key) == IF key \in WeatherFields THEN <<key>> ELSE <<renameTheValue(key)>>
NcRawName(key) == IF key \in WeatherFields THEN <<"raw_", key>> ELSE <<"raw_", renameTheValue(key)>>
\* main is about to extract the field.
Extracting(key) ==
    \/ pc = "weather" /\ key \in WeatherFields /\ key \in todo
    \/ pc = "sensors" /\ key \in SensorKeys /\ key \in todo
ExtractionOf(key) ==
    IF key \in WeatherFields THEN getListOfWeatherStationValue(loggerReadings, key)
    ELSE sensorVariables(loggerReadings, key)
\* main is beyond the loop that extracts the field.
BeyondLoopOf(key) ==
    IF key \in WeatherFields
    THEN pc \in {"spectrometer", "time", "sensors", "delta", "flux", "write"}
    ELSE pc \in {"delta", "flux", "write"}
HasFactor(label) == label \in DOMAIN UNIT_DICTIONARY /\ UNIT_DICTIONARY[label].kind = "dict"

\* C3 (as stated): every extracted field has one value and one raw value per
\* reading, values[i] = rawValues[i] * scaleFactor with the scale factor of
\* the unit of the first reading, and rawValues[i] the recorded raw value.
C3_ValuesAreScaledRawValues ==
    \A key \in FieldKeys :
        (Loaded /\ NcName(key) \in DOMAIN nc) =>
            LET values == nc[NcName(key)].val
                rawValues == nc[NcRawName(key)].val
                scaleFactor == UNIT_DICTIONARY[FirstLabel(key)].power
            IN  /\ Len(values) = Len(loggerReadings)
                /\ Len(rawValues) = Len(loggerReadings)
                /\ \A i \in 1..Len(loggerReadings) :
                       /\ RatEq(values[i], Scaled(rawValues[i], scaleFactor))
                       /\ rawValues[i] = CellOf(i, key).rawValue

\* C3 (amended): every extracted field has one value and one raw value per
\* reading, values[i] = value[i] * scaleFactor, where value[i] is the value
\* recorded on reading i (not its raw value) and scaleFactor the factor of the
\* unit of the first reading, and rawValues[i] the recorded raw value; and a
\* field whose first unit has a factor is extracted whenever main reaches it.
C3_ValuesAreScaledRecordedValues ==
    \A key \in FieldKeys :
        /\ (Loaded /\ NcName(key) \in DOMAIN nc) =>
               LET values == nc[NcName(key)].val
                   rawValues == nc[NcRawName(key)].val
                   scaleFactor == UNIT_DICTIONARY[FirstLabel(key)].power
               IN  /\ Len(values) = Len(loggerReadings)
                   /\ Len(rawValues) = Len(loggerReadings)
                   /\ \A i \in 1..Len(loggerReadings) :
                          /\ RatEq(values[i], Scaled(CellOf(i, key).value, scaleFactor))
                          /\ rawValues[i] = CellOf(i, key).rawValue
        /\ (Extracting(key) /\ HasFactor(FirstLabel(key))) => ExtractionOf(key).ok
        /\ (BeyondLoopOf(key) /\ HasFactor(FirstLabel(key))) => NcName(key) \in DOMAIN nc

\* A field of MaxReadings readings is written with the factor 100 of hPa, its
\* recorded values differing from its raw values.
C3_Witness ==
    /\ Loaded
    /\ Len(loggerReadings) = MaxReadings
    /\ <<"airPressure">> \in DOMAIN nc
    /\ FirstLabel("airPressure") = "hPa"
    /\ \A i \in 1..MaxReadings : CellOf(i, "airPressure").value # CellOf(i, "airPressure").rawValue
    /\ nc[<<"airPressure">>].val[1] = Rat(100 * CellOf(1, "airPressure").value, 1)

\* C4: a field whose first unit label is the empty string is extracted without
\* error, with the scale factor 1: its values are the recorded values.
C4_EmptyLabelIsConverted ==
    \A key \in FieldKeys :
        (Loaded /\ Extracting(key) /\ FirstLabel(key) = "") =>
            /\ ExtractionOf(key).ok
            /\ \A i \in 1..Len(loggerReadings) :
                   RatEq(ExtractionOf(key).val.value[i], Rat(CellOf(i, key).value, 1))

\* C5 (as stated): a field whose first unit label is no key of the unit table
\* is never converted: its extraction raises an error that names the label
\* and the field, and none of its values is written.
C5_UnknownLabelErrorNamesLabelAndField ==
    \A key \in FieldKeys :
        (Loaded /\ FirstLabel(key) \notin DOMAIN UNIT_DICTIONARY) =>
            /\ NcName(key) \notin DOMAIN nc /\ NcRawName(key) \notin DOMAIN nc
            /\ ~BeyondLoopOf(key)
            /\ Extracting(key) =>
                   /\ ~ExtractionOf(key).ok
                   /\ FirstLabel(key) \in Range(ExtractionOf(key).exc.args)
                   /\ key \in Range(ExtractionOf(key).exc.args)

\* C5 (amended): a field whose first unit label is no key of the unit table
\* is never converted: its extraction raises a KeyError that names the label
\* (and not the field), the error ends the program, and none of the field's
\* values is written.
C5_UnknownLabelRaisesKeyError ==
    \A key \in FieldKeys :
        (Loaded /\ FirstLabel(key) \notin DOMAIN UNIT_DICTIONARY) =>
            /\ NcName(key) \notin DOMAIN nc /\ NcRawName(key) \notin DOMAIN nc
            /\ ~BeyondLoopOf(key)
            /\ pc # "finished"
            /\ Extracting(key) => ExtractionOf(key).exc = Exc("KeyError", <<FirstLabel(key)>>)
            /\ (pc = "raised" /\ exc.type = "KeyError") =>
                   \E k \in FieldKeys : /\ FirstLabel(k) \notin DOMAIN UNIT_DICTIONARY
                                        /\ exc.args = <<FirstLabel(k)>>

\* The program has ended on the KeyError of an unknown label.
C5_Witness ==
    /\ Loaded
    /\ pc = "raised"
    /\ \E key \in FieldKeys :
           /\ FirstLabel(key) \in UnknownLabels
           /\ exc = Exc("KeyError", <<FirstLabel(key)>>)
           /\ NcName(key) \notin DOMAIN nc

\* The bandwidths of the channels of a grid w of N >= 3 wavelengths, as the
\* wavelength-delta computation is specified: with the midpoints
\* m[k] = (w[k] + w[k+1]) / 2, twice m[1] - w[1] for the first channel, the
\* difference of the midpoints on either side for an interior channel, and
\* twice w[N] - m[N-1] for the last channel.
Midpoint(w, k) == (w[k] + w[k + 1]) \div 2
Bandwidths(w) ==
    [j \in 1..Len(w) |->
        IF j = 1 THEN 2 * (Midpoint(w, 1) - w[1])
        ELSE IF j = Len(w) THEN 2 * (w[Len(w)] - Midpoint(w, Len(w) - 1))
        ELSE Midpoint(w, j) - Midpoint(w, j - 1)]
ValidGrid(w) == Len(w) >= 3 /\ StrictlyIncreasing(w)
DeltaComputed == pc \in {"flux", "write"}
FluxComputed == pc = "write"

\* C1: for a strictly increasing grid of N >= 3 wavelengths the computed
\* deltas are N entries aligned with the channels: the first channel's delta
\* first, the interior deltas in order, the last channel's delta last.
C1_DeltasAlignedWithChannels ==
    (DeltaComputed /\ ValidGrid(wvl_lgr)) => delta = Bandwidths(wvl_lgr)

\* C2: the downwelling flux of every reading is the sum over the channels of
\* its spectral flux times the bandwidth of the same channel.
C2_FluxIsSumOverChannelBandwidths ==
    (FluxComputed /\ ValidGrid(wvl_lgr)) =>
        \A i \in 1..Len(loggerReadings) :
            downwellingFlux[i] =
                SumSeq([j \in 1..Len(wvl_lgr) |->
                           downwellingSpectralFlux[i][j] * Bandwidths(wvl_lgr)[j]])

\* C9: when the counts of some reading are not as many as the wavelengths of
\* the first reading, the conversion raises a spectrometer shape error before
\* the deltas and the flux are computed.
ShapeMismatch ==
    \E i \in 1..Len(loggerReadings) :
        Len(loggerReadings[i].spectrometer.spectrum) # Len(loggerReadings[1].spectrometer.wavelength)
C9_ShapeMismatchRaisesBeforeFlux ==
    (Loaded /\ ShapeMismatch) =>
        /\ pc \notin {"time", "sensors", "delta", "flux", "write"}
        /\ (pc = "raised" /\ <<"wvl_lgr">> \in DOMAIN nc) => exc.type = "SpectrometerShapeError"

\* C10: a grid of fewer than 3 wavelengths, or one that is not strictly
\* increasing, is rejected with an invalid-grid error: no deltas are computed
\* from it.
C10_InvalidGridIsRejected ==
    /\ (Loaded /\ pc = "delta" /\ ~ValidGrid(wvl_lgr)) =>
           /\ ~computeDelta(wvl_lgr).ok
           /\ computeDelta(wvl_lgr).exc.type = "InvalidGridError"
    /\ DeltaComputed => ValidGrid(wvl_lgr)

\* The fields of a time stamp YYYY.MM.DD-HH:MM:SS, and whether they name a
\* moment of the calendar.
StampOf(i) == loggerReadings[i].timestamp
FieldsOf(ts) ==
    [y |-> ParseInt(SubSeq(ts, 1, 4)), m |-> ParseInt(SubSeq(ts, 6, 7)), d |-> ParseInt(SubSeq(ts, 9, 10)),
     h |-> ParseInt(SubSeq(ts, 12, 13)), mi |-> ParseInt(SubSeq(ts, 15, 16)),
     sec |-> ParseInt(SubSeq(ts, 18, 19))]
MonthLength(y, m) ==
    CASE m \in {1, 3, 5, 7, 8, 10, 12} -> 31
      [] m \in {4, 6, 9, 11} -> 30
      [] m = 2 -> IF (y % 4 = 0 /\ y % 100 # 0) \/ y % 400 = 0 THEN 29 ELSE 28
WellFormed(f) ==
    /\ f.m \in 1..12 /\ f.d >= 1 /\ f.d <= MonthLength(f.y, f.m)
    /\ f.h \in 0..23 /\ f.mi \in 0..59 /\ f.sec \in 0..59
\* The calendar days from 1970-01-01 to the day y-m-d, counted from the civil
\* date by eras of 400 years (the year taken to begin in March).
DaysFromEpoch(y, m, d) ==
    LET yy == IF m <= 2 THEN y - 1 ELSE y
        era == yy \div 400
        yoe == yy - era * 400
        mp == IF m > 2 THEN m - 3 ELSE m + 9
        doy == ((153 * mp + 2) \div 5) + d - 1
        doe == yoe * 365 + (yoe \div 4) - (yoe \div 100) + doy
    IN  era * 146097 + doe - 719468
SecondsFromEpoch(f) == DaysFromEpoch(f.y, f.m, f.d) * 86400 + f.h * 3600 + f.mi * 60 + f.sec
TimesWritten == Loaded /\ <<"time">> \in DOMAIN nc
TimeOf(i) == nc[<<"time">>].val[i]

\* C6: the time of a well-formed time stamp is D + (HH*3600 + MM*60 + SS) / 86400
\* days, D the calendar days from 1970-01-01 to its day: 1970.01.02-00:00:00
\* gives 1, 1970.01.01-12:00:00 gives 1/2, and of two time stamps the later
\* never gets the smaller time.  A batch of well-formed time stamps gets its
\* times written.
C6_TimeIsDaysSinceEpoch ==
    /\ TimesWritten =>
           /\ Len(nc[<<"time">>].val) = Len(loggerReadings)
           /\ \A i \in 1..Len(loggerReadings) :
                  /\ WellFormed(FieldsOf(StampOf(i)))
                  /\ TimeOf(i).den = 86400
                  /\ TimeOf(i).num = SecondsFromEpoch(FieldsOf(StampOf(i)))
                  /\ StampOf(i) = <<"1", "9", "7", "0", ".", "0", "1", ".", "0", "2", "-",
                                    "0", "0", ":", "0", "0", ":", "0", "0">>
                         => RatEq(TimeOf(i), Rat(1, 1))
                  /\ StampOf(i) = <<"1", "9", "7", "0", ".", "0", "1", ".", "0", "1", "-",
                                    "1", "2", ":", "0", "0", ":", "0", "0">>
                         => RatEq(TimeOf(i), Rat(1, 2))
           /\ \A i, j \in 1..Len(loggerReadings) :
                  LET a == FieldsOf(StampOf(i))
                      b == FieldsOf(StampOf(j))
                      Before(u, v) ==
                          \E k \in 1..6 : /\ u[k] < v[k]
                                          /\ \A l \in 1..(k - 1) : u[l] = v[l]
                  IN  Before(<<a.y, a.m, a.d, a.h, a.mi, a.sec>>, <<b.y, b.m, b.d, b.h, b.mi, b.sec>>)
                          => TimeOf(i).den = TimeOf(j).den /\ TimeOf(i).num <= TimeOf(j).num
    /\ (Loaded /\ pc \in {"sensors", "delta", "flux", "write"}) => <<"time">> \in DOMAIN nc
    /\ (Loaded /\ pc = "time" /\ \A i \in 1..Len(loggerReadings) : WellFormed(FieldsOf(StampOf(i))))
           => \A i \in 1..Len(loggerReadings) : translateTime(StampOf(i)).ok

\* The times of 1972.02.29-23:59:59 and of the later 1972.03.01-00:00:00 are
\* written, a second apart.
C6_Witness ==
    /\ TimesWritten
    /\ Len(loggerReadings) = 2
    /\ FieldsOf(StampOf(1)) = [y |-> 1972, m |-> 2, d |-> 29, h |-> 23, mi |-> 59, sec |-> 59]
    /\ FieldsOf(StampOf(2)) = [y |-> 1972, m |-> 3, d |-> 1, h |-> 0, mi |-> 0, sec |-> 0]
    /\ TimeOf(2).num = TimeOf(1).num + 1

\* The program has ended, with "Done." or on an exception.
Ended == pc \in {"finished", "raised"}
IsJson(name) == Len(name) >= 5 /\ SubSeq(name, Len(name) - 4, Len(name)) = <<".", "j", "s", "o", "n">>
StemOf(name) == SubSeq(name, 1, Len(name) - 5)
ConvertedFrom(name) == \E c \in converted : c.src = name

\* C7: over a directory, the failure of a file's conversion is reported and
\* every other '.json' file is still converted, those after it in the walk
\* included.
C7_FailureDoesNotStopTheWalk ==
    (branch = "walk" /\ Ended) =>
        \A k \in 1..Len(walk) :
            IsJson(walk[k].name) =>
                IF walk[k].content \in {UnknownUnitBatch, OneWavelengthBatch}
                THEN ~ConvertedFrom(walk[k].name) /\ exc # NoExc
                ELSE ConvertedFrom(walk[k].name)

\* C8: the output of <stem>.json, written into the output directory, is
\* <stem>.nc, whatever the stem begins and ends with.
C8_OutputNameKeepsTheStem ==
    /\ \A c \in converted :
           (c.out.inDir /\ IsJson(c.src)) => c.out.name = StemOf(c.src) \o <<".", "n", "c">>
    /\ (pc = "open" /\ outputFileName.inDir /\ IsJson(members)) =>
           outputFileName.name = StemOf(members) \o <<".", "n", "c">>

\* Some reading's wavelength grid is not the first reading's.
GridOf(i) == loggerReadings[i].spectrometer.wavelength
GridsDiffer == \E i \in 1..Len(loggerReadings) : GridOf(i) # GridOf(1)
SpectrometerRead == pc \in {"time", "sensors", "delta", "flux", "write"}

\* C11: the wavelength grid is read from the first reading only, and a batch
\* in which some other reading's grid differs from the first reading's is
\* surfaced as a data-integrity error: no conversion of such a batch completes
\* with the first reading's grid standing for the grids of all readings.
C11_DifferingGridIsSurfaced ==
    /\ (Loaded /\ SpectrometerRead) => wvl_lgr = GridOf(1)
    /\ (Loaded /\ GridsDiffer) =>
           /\ ~ConvertedFrom(members)
           /\ (Ended => pc = "raised" /\ exc.type = "DataIntegrityError")

\* The grid w has the same spacing d between every two neighbours.
IsUniform(w, d) == \A k \in 1..(Len(w) - 1) : w[k + 1] - w[k] = d
SpacingOf(w) == w[2] - w[1]

\* C12: for a uniform grid of spacing d with N >= 3 points the computation of
\* the deltas returns N entries, every one equal to d, the two edge deltas
\* included; the grid [2, 4, 6, 8] ([1, 2, 3, 4] counted in halves) gives
\* [2, 2, 2, 2].
C12_UniformGridGivesSpacing ==
    /\ (Loaded /\ pc = "delta" /\ Len(wvl_lgr) >= 3 /\ IsUniform(wvl_lgr, SpacingOf(wvl_lgr))) =>
           /\ computeDelta(wvl_lgr).ok
           /\ computeDelta(wvl_lgr).val = [j \in 1..Len(wvl_lgr) |-> SpacingOf(wvl_lgr)]
    /\ (DeltaComputed /\ Len(wvl_lgr) >= 3 /\ IsUniform(wvl_lgr, SpacingOf(wvl_lgr))) =>
           /\ Len(delta) = Len(wvl_lgr)
           /\ \A j \in 1..Len(delta) : delta[j] = SpacingOf(wvl_lgr)
    /\ (DeltaComputed /\ wvl_lgr = <<2, 4, 6, 8>>) => delta = <<2, 2, 2, 2>>

\* The deltas of a uniform grid of MaxChannels points, of spacing 4, are
\* computed.
C12_Witness ==
    /\ DeltaComputed
    /\ Len(wvl_lgr) = MaxChannels
    /\ IsUniform(wvl_lgr, 4)
    /\ Len(delta) = MaxChannels
    /\ delta[1] = 4 /\ delta[MaxChannels - 1] = 4 /\ delta[MaxChannels] = 4

\* A rational of numerator >= 0 in lowest terms.
RECURSIVE GCD(_, _)
GCD(a, b) == IF b = 0 THEN a ELSE GCD(b, a % b)
Lowest(r) == Rat(r.num \div GCD(r.num, r.den), r.den \div GCD(r.num, r.den))
IntegrationWritten == Loaded /\ <<"time_integration">> \in DOMAIN nc

\* C13: the time_integration written to the output, whose unit is 'second',
\* is the integration time t of the first reading, in microseconds, times the
\* factor 1e-6 of the unit table's microsecond: t / 1000000 seconds.
C13_IntegrationTimeInSeconds ==
    IntegrationWritten =>
        /\ nc[<<"time_integration">>].units = "second"
        /\ UNIT_DICTIONARY["us"].SI = "second"
        /\ Lowest(nc[<<"time_integration">>].val)
               = Lowest(Scaled(loggerReadings[1].spectrometer.integration, UNIT_DICTIONARY["us"].power))

====
